---- MODULE Spec2Model ----
(***************************************************************************)
(* Model of 0RG.py: an interactive wizard that drives "rclone copy".       *)
(* Text is modelled as a sequence of one-character strings so that         *)
(* strip(), lower(), substring search, int() and strftime() are computed   *)
(* as the program computes them.  A step of the model is one blocking      *)
(* read of a line of user input, or one call of the external tool,         *)
(* together with everything main() does up to the next blocking point.     *)
(* Interrupt signals and end-of-input are not modelled: every read yields  *)
(* a line of text.  pause() reads a line and discards it, so it is folded  *)
(* into the step that calls it.                                            *)
(***************************************************************************)
EXTENDS Integers, Sequences, FiniteSets, TLC

\* ------------------------------------------------------------ bounds
\* Exit codes of the external tool range over 0..MaxRc.
MaxRc == 2

\* ------------------------------------------------------------ text
UpperChars == <<"A","B","C","D","E","F","G","H","I","J","K","L","M","N","O","P","Q","R","S","T","U","V","W","X","Y","Z","Í">>
LowerChars == <<"a","b","c","d","e","f","g","h","i","j","k","l","m","n","o","p","q","r","s","t","u","v","w","x","y","z","í">>
DigitChars == <<"0","1","2","3","4","5","6","7","8","9">>
\* Characters in code-point order, as Python compares strings.
CodeOrder == <<" ","$","-",".","/","0","1","2","3","4","5","6","7","8","9",":","?","A","B","C","D","E","F","G","H","I","J","K","L","M","N","O","P","Q","R","S","T","U","V","W","X","Y","Z","_","a","b","c","d","e","f","g","h","i","j","k","l","m","n","o","p","q","r","s","t","u","v","w","x","y","z","~","²","Í","í">>
Whitespace == {" ", "\t"}

IndexOf(seq, x) == CHOOSE i \in 1..Len(seq) : seq[i] = x
InSeq(x, seq) == \E i \in 1..Len(seq) : seq[i] = x

\* str.lower()
lower_char(ch) == IF InSeq(ch, UpperChars) THEN LowerChars[IndexOf(UpperChars, ch)] ELSE ch
lower(s) == [i \in 1..Len(s) |-> lower_char(s[i])]

\* str.lstrip / str.rstrip / str.strip with a set of characters
RECURSIVE lstrip(_, _)
lstrip(s, cs) == IF s # <<>> /\ Head(s) \in cs THEN lstrip(Tail(s), cs) ELSE s
RECURSIVE rstrip(_, _)
rstrip(s, cs) == IF s # <<>> /\ s[Len(s)] \in cs THEN rstrip(SubSeq(s, 1, Len(s) - 1), cs) ELSE s
strip(s, cs) == rstrip(lstrip(s, cs), cs)

\* "m in s" for strings
contains(s, m) == \E i \in 1..(Len(s) - Len(m) + 1) : SubSeq(s, i, i + Len(m) - 1) = m
\* s.startswith(m)
startswith(s, m) == Len(s) >= Len(m) /\ SubSeq(s, 1, Len(m)) = m

\* str.isdigit(): true of the decimal digits and of other characters of
\* Unicode's digit class, of which the superscript two stands here.
OtherDigitChars == {"²"}
isdigit(s) == s # <<>> /\ \A i \in 1..Len(s) : InSeq(s[i], DigitChars) \/ s[i] \in OtherDigitChars
\* int() accepts the decimal digits only and raises ValueError otherwise.
int_raises(s) == s = <<>> \/ \E i \in 1..Len(s) : ~InSeq(s[i], DigitChars)
RECURSIVE int(_)
int(s) == IF s = <<>> THEN 0 ELSE 10 * int(SubSeq(s, 1, Len(s) - 1)) + (IndexOf(DigitChars, s[Len(s)]) - 1)

\* Python's string order: code points, then length
RECURSIVE str_lt(_, _)
str_lt(a, b) ==
    IF b = <<>> THEN FALSE
    ELSE IF a = <<>> THEN TRUE
    ELSE IF Head(a) = Head(b) THEN str_lt(Tail(a), Tail(b))
    ELSE IndexOf(CodeOrder, Head(a)) < IndexOf(CodeOrder, Head(b))

\* sep.join(parts)
RECURSIVE join(_, _)
join(parts, sep) ==
    IF parts = <<>> THEN <<>>
    ELSE IF Len(parts) = 1 THEN parts[1]
    ELSE parts[1] \o sep \o join(Tail(parts), sep)

\* s.split(sep) for a one-character separator
RECURSIVE split(_, _)
split(s, sep) ==
    IF ~InSeq(sep, s) THEN <<s>>
    ELSE LET i == CHOOSE k \in 1..Len(s) : s[k] = sep /\ \A j \in 1..(k - 1) : s[j] # sep
         IN  <<SubSeq(s, 1, i - 1)>> \o split(SubSeq(s, i + 1, Len(s)), sep)

\* ------------------------------------------------------------ tokens
\* a slip in the help test: the question mark left out
HelpTokens_without_question == {<<"h">>, <<"h","e","l","p">>}
HelpTokens == {<<"h">>, <<"h","e","l","p">>, <<"?">>}
YesTokens == {<<"s">>, <<"s","i">>, <<"s","í">>, <<"y">>, <<"y","e","s">>}
NoTokens == {<<"n">>, <<"n","o">>}
\* The quit tokens of main, choose_source_folder and folder_browser, and
\* those of pick_remote.
QuitShort == {<<"q">>, <<"q","u","i","t">>}
QuitPick == {<<"q">>, <<"q","u","i","t">>, <<"s","a","l","i","r">>}

\* Python's None where a text is expected, and where a Path is expected.
NoText == <<"None">>
NoPath == [anchor |-> "None", parts |-> <<>>]

\* ------------------------------------------------------------ paths
\* pathlib.Path (POSIX): anchor "/" for an absolute path, "" for a relative
\* one, and the components after it.
RECURSIVE drop_dots(_)
drop_dots(seq) ==
    IF seq = <<>> THEN <<>>
    ELSE (IF Head(seq) \in {<<>>, <<".">>} THEN <<>> ELSE <<Head(seq)>>) \o drop_dots(Tail(seq))
Path(s) == [anchor |-> IF startswith(s, <<"/">>) THEN "/" ELSE "", parts |-> drop_dots(split(s, "/"))]
\* str(path)
path_str(p) ==
    IF p.anchor = "/" THEN <<"/">> \o join(p.parts, <<"/">>)
    ELSE IF p.parts = <<>> THEN <<".">>
    ELSE join(p.parts, <<"/">>)
\* a slip in the ascent: two levels up instead of one
parent_twice(p) ==
    IF Len(p.parts) < 2 THEN [p EXCEPT !.parts = <<>>]
    ELSE [p EXCEPT !.parts = SubSeq(p.parts, 1, Len(p.parts) - 2)]
\* path.parent
parent(p) == IF p.parts = <<>> THEN p ELSE [p EXCEPT !.parts = SubSeq(p.parts, 1, Len(p.parts) - 1)]
\* path.name
name(p) == IF p.parts = <<>> THEN <<>> ELSE p.parts[Len(p.parts)]
\* path / child
joinpath(p, child) == [p EXCEPT !.parts = Append(p.parts, child)]

\* The environment of the run: HOME and the tool's location.
HomeText == <<"/","r","o","o","t">>
home == Path(HomeText)
RclonePath == <<"/","u","s","r","/","b","i","n","/","r","c","l","o","n","e">>

\* os.path.expanduser: a leading "~" alone or before "/" becomes HOME.
expanduser(s) ==
    IF startswith(s, <<"~">>) /\ (Len(s) = 1 \/ s[2] = "/") THEN HomeText \o SubSeq(s, 2, Len(s)) ELSE s
\* os.path.expandvars with HOME the only variable set: "$HOME" not followed
\* by a name character is replaced, any other text is kept.
NameChars == {LowerChars[i] : i \in 1..26} \cup {UpperChars[i] : i \in 1..26} \cup {DigitChars[i] : i \in 1..10} \cup {"_"}
RECURSIVE expandvars(_)
expandvars(s) ==
    IF s = <<>> THEN <<>>
    ELSE IF startswith(s, <<"$","H","O","M","E">>) /\ (Len(s) = 5 \/ s[6] \notin NameChars)
         THEN HomeText \o expandvars(SubSeq(s, 6, Len(s)))
    ELSE <<Head(s)>> \o expandvars(Tail(s))

\* A filesystem: the absolute component lists of its directories and of its
\* other entries, and the working directory of the run.  It does not change
\* during a run.
D_root == <<>>
D_home == <<<<"r","o","o","t">>>>
FsDocuments == [dirs |-> {D_root, D_home,
                          D_home \o <<<<"D","o","c","u","m","e","n","t","s">>>>,
                          D_home \o <<<<"D","o","c","u","m","e","n","t","s">>, <<"P","h","o","t","o","s">>>>,
                          D_home \o <<<<"D","o","c","u","m","e","n","t","s">>, <<"a","l","p","h","a">>>>,
                          D_home \o <<<<"D","o","c","u","m","e","n","t","s">>, <<".","g","i","t">>>>},
                files |-> {D_home \o <<<<"D","o","c","u","m","e","n","t","s">>, <<"n","o","t","e","s">>>>},
                cwd |-> D_home \o <<<<"D","o","c","u","m","e","n","t","s">>, <<"P","h","o","t","o","s">>>>]
FsEscritorio == [dirs |-> {D_root, D_home,
                           D_home \o <<<<"E","s","c","r","i","t","o","r","i","o">>>>,
                           D_home \o <<<<"E","s","c","r","i","t","o","r","i","o">>, <<"B">>>>,
                           D_home \o <<<<"E","s","c","r","i","t","o","r","i","o">>, <<"b">>>>},
                 files |-> {D_home \o <<<<"D","o","c","u","m","e","n","t","s">>>>},
                 cwd |-> D_home \o <<<<"E","s","c","r","i","t","o","r","i","o">>, <<"B">>>>]
FsBare == [dirs |-> {D_root, D_home, D_home \o <<<<".","c","a","c","h","e">>>>}, files |-> {}, cwd |-> D_home]
FileSystems == {FsDocuments, FsEscritorio, FsBare}

resolve(f, p) == IF p.anchor = "/" THEN p.parts ELSE f.cwd \o p.parts
exists(f, p) == resolve(f, p) \in f.dirs \cup f.files
is_dir(f, p) == resolve(f, p) \in f.dirs
\* path.iterdir(): the entries directly below a directory
iterdir(f, p) ==
    LET rp == resolve(f, p)
    IN  {joinpath(p, e[Len(e)]) : e \in {x \in f.dirs \cup f.files :
                                        Len(x) = Len(rp) + 1 /\ SubSeq(x, 1, Len(rp)) = rp}}

\* list_subfolders: the visible subdirectories sorted by lower-cased name.
\* sorted() is stable and iterdir() yields in arbitrary order, so entries
\* whose keys are equal may come in either order: the result is any of the
\* sorted arrangements.  A listing failure gives the empty list.
visible_subfolders(f, p) == {q \in iterdir(f, p) : is_dir(f, q) /\ ~startswith(name(q), <<".">>)}
sorted_by_name(S) ==
    {seq \in [1..Cardinality(S) -> S] :
        /\ \A i, j \in 1..Cardinality(S) : i # j => seq[i] # seq[j]
        /\ \A i, j \in 1..Cardinality(S) : i < j => ~str_lt(name(seq[j]), name(seq[i]))}
sorted_by_lower_name(S) ==
    {seq \in [1..Cardinality(S) -> S] :
        /\ \A i, j \in 1..Cardinality(S) : i # j => seq[i] # seq[j]
        /\ \A i, j \in 1..Cardinality(S) : i < j => ~str_lt(lower(name(seq[j])), lower(name(seq[i])))}
list_subfolders(f, p) == IF ~is_dir(f, p) THEN {<<>>} ELSE sorted_by_lower_name(visible_subfolders(f, p))

\* ------------------------------------------------------------ program text
DefaultDest == <<"B","a","c","k","u","p","0","R","G">>
DefaultVersionsBase == <<"B","a","c","k","u","p","0","R","G","_","V","e","r","s","i","o","n","e","s">>
WellKnownRemote == <<"g","d","r","i","v","e">>

\* a slip in ask_yes_no: a "no" answer taken for a "yes"
ask_yes_no_no_as_yes(raw, default_yes) ==
    LET ans == lower(strip(raw, Whitespace))
    IN  IF ans \in HelpTokens THEN "help"
        ELSE IF ans = <<>> THEN (IF default_yes THEN "yes" ELSE "no")
        ELSE IF ans \in YesTokens \cup NoTokens THEN "yes"
        ELSE "again"

\* ask_yes_no on one line of input: "help" and "again" re-ask the prompt.
ask_yes_no(raw, default_yes) ==
    LET ans == lower(strip(raw, Whitespace))
    IN  IF ans \in HelpTokens THEN "help"
        ELSE IF ans = <<>> THEN (IF default_yes THEN "yes" ELSE "no")
        ELSE IF ans \in YesTokens THEN "yes"
        ELSE IF ans \in NoTokens THEN "no"
        ELSE "again"

\* get_remotes: the lines of "rclone listremotes", blank lines dropped, each
\* stripped and without its trailing colons; [] when the call raises.
Raises == <<<<"raise">>>>
RECURSIVE remote_names(_)
remote_names(out) ==
    IF out = <<>> THEN <<>>
    ELSE (IF strip(Head(out), Whitespace) # <<>>
          THEN <<rstrip(strip(Head(out), Whitespace), {":"})>> ELSE <<>>) \o remote_names(Tail(out))
get_remotes(out) == IF out = Raises THEN <<>> ELSE remote_names(out)

\* a slip in main: the first remote offered even when "gdrive" is configured
default_remote_first(rs) == rs[1]
\* main: the default remote offered
default_remote(rs) == IF InSeq(WellKnownRemote, rs) THEN WellKnownRemote ELSE rs[1]

\* a slip in remote_ok_or_fix: the output searched without lower-casing it
needs_reconnect_case_sensitive(output) ==
    LET msg == IF output = NoText THEN <<>> ELSE output
    IN  \/ contains(msg, <<"e","m","p","t","y"," ","t","o","k","e","n">>)
        \/ contains(msg, <<"r","e","c","o","n","n","e","c","t">>)
        \/ contains(msg, <<"f","a","i","l","e","d"," ","t","o"," ","c","r","e","a","t","e"," ","o","a","u","t","h"," ","c","l","i","e","n","t">>)
        \/ contains(msg, <<"i","n","v","a","l","i","d","_","g","r","a","n","t">>)

\* remote_ok_or_fix: the authorization-failure markers looked for in the
\* lower-cased output of the failed listing (None counts as empty).
needs_reconnect(output) ==
    LET msg == lower(IF output = NoText THEN <<>> ELSE output)
    IN  \/ contains(msg, <<"e","m","p","t","y"," ","t","o","k","e","n">>)
        \/ contains(msg, <<"r","e","c","o","n","n","e","c","t">>)
        \/ contains(msg, <<"f","a","i","l","e","d"," ","t","o"," ","c","r","e","a","t","e"," ","o","a","u","t","h"," ","c","l","i","e","n","t">>)
        \/ contains(msg, <<"i","n","v","a","l","i","d","_","g","r","a","n","t">>)

\* the tests of an external process's exit code
\* a slip in an exit-code test: only codes above 1 count as failure
reconnect_failed_above_one(code) == code > 1
copy_failed_above_one(code) == code > 1
config_failed_above_one(code) == code > 1
config_failed(code) == code # 0
reconnect_failed(code) == code # 0
copy_failed(code) == code # 0

\* datetime.strftime("%Y-%m-%d")
RECURSIVE digits(_)
digits(n) == IF n < 10 THEN <<DigitChars[n + 1]>> ELSE digits(n \div 10) \o <<DigitChars[(n % 10) + 1]>>
RECURSIVE zfill(_, _)
zfill(s, width) == IF Len(s) >= width THEN s ELSE zfill(<<"0">> \o s, width)
\* a slip in the date format: "%Y-%-m-%-d", month and day not padded
strftime_unpadded(d) == zfill(digits(d.year), 4) \o <<"-">> \o digits(d.month) \o <<"-">> \o digits(d.day)
strftime(d) == zfill(digits(d.year), 4) \o <<"-">> \o zfill(digits(d.month), 2) \o <<"-">> \o zfill(digits(d.day), 2)

\* a slip in the transfer command: the verb "sync" in place of "copy"
build_cmd_sync(tool, src, rem, dst, versions, base, today, dry, progress) ==
    <<tool, <<"s","y","n","c">>, path_str(src), rem \o <<":">> \o dst, <<"-","-","f","a","s","t","-","l","i","s","t">>>>
    \o (IF versions THEN <<<<"-","-","b","a","c","k","u","p","-","d","i","r">>, rem \o <<":">> \o base \o <<"/">> \o today>> ELSE <<>>)
    \o (IF dry THEN <<<<"-","-","d","r","y","-","r","u","n">>>> ELSE <<>>)
    \o (IF progress THEN <<<<"-","-","p","r","o","g","r","e","s","s">>>> ELSE <<>>)
\* a slip in the transfer command: the dry-run flag tied to the progress answer
build_cmd_flags_swapped(tool, src, rem, dst, versions, base, today, dry, progress) ==
    <<tool, <<"c","o","p","y">>, path_str(src), rem \o <<":">> \o dst, <<"-","-","f","a","s","t","-","l","i","s","t">>>>
    \o (IF versions THEN <<<<"-","-","b","a","c","k","u","p","-","d","i","r">>, rem \o <<":">> \o base \o <<"/">> \o today>> ELSE <<>>)
    \o (IF progress THEN <<<<"-","-","d","r","y","-","r","u","n">>>> ELSE <<>>)
    \o (IF progress THEN <<<<"-","-","p","r","o","g","r","e","s","s">>>> ELSE <<>>)

\* main: the transfer command
build_cmd(tool, src, rem, dst, versions, base, today, dry, progress) ==
    <<tool, <<"c","o","p","y">>, path_str(src), rem \o <<":">> \o dst, <<"-","-","f","a","s","t","-","l","i","s","t">>>>
    \o (IF versions THEN <<<<"-","-","b","a","c","k","u","p","-","d","i","r">>, rem \o <<":">> \o base \o <<"/">> \o today>> ELSE <<>>)
    \o (IF dry THEN <<<<"-","-","d","r","y","-","r","u","n">>>> ELSE <<>>)
    \o (IF progress THEN <<<<"-","-","p","r","o","g","r","e","s","s">>>> ELSE <<>>)

\* ------------------------------------------------------------ inputs
\* What the environment can answer.
WhichResults == {RclonePath, NoText}
ListremotesResults == {Raises, <<>>, <<<<"w","o","r","k",":">>, <<"g","d","r","i","v","e",":">>>>, <<<<" ","2",":"," ">>, <<>>, <<"q",":">>>>}
ListremotesAfterConfig == {Raises, <<>>, <<<<"d","r","i","v","e",":">>>>}
LsdOk == <<"ok">>
LsdOutputs ==
    { NoText,
      <<"F","a","i","l","e","d"," ","t","o"," ","c","r","e","a","t","e"," ","O","A","u","t","h"," ","c","l","i","e","n","t">>,
      <<"I","N","V","A","L","I","D","_","G","R","A","N","T">>,
      <<"e","r","r","o","r",":"," ","E","m","p","t","y"," ","T","o","k","e","n">>,
      <<"r","u","n"," ","r","c","l","o","n","e"," ","c","o","n","f","i","g"," ","r","e","c","o","n","n","e","c","t">>,
      <<"i","n","v","a","l","i","d"," ","g","r","a","n","t">>,
      <<"n","o"," ","s","u","c","h"," ","h","o","s","t">> }
Dates == {[year |-> 2024, month |-> 1, day |-> 2], [year |-> 1999, month |-> 12, day |-> 31]}

\* The lines a user can type at each prompt.
YesNoLines == {<<>>, <<" ","S"," ">>, <<"s","í">>, <<"y","e","s">>, <<"n">>, <<"N","O">>, <<"h">>, <<"?">>, <<"q">>, <<"s","a","l","i","r">>, <<"x">>}
ParamLines == {<<>>, <<"N","O">>, <<"h">>, <<"q">>}
ConfirmLines == {<<>>, <<"N">>, <<"H">>, <<"h","e","l","p">>, <<"?">>, <<" ","q"," ">>, <<"s","a","l","i","r">>, <<"x">>}
DefaultLines == {<<>>, <<"s">>, <<"N">>, <<"n","o">>, <<"H">>, <<"h","e","l","p">>, <<"?">>, <<" ","q"," ">>, <<"q","u","i","t">>, <<"s","a","l","i","r">>, <<"x">>}
PickLines == {<<>>, <<"1">>, <<" ","2"," ">>, <<"3">>, <<"0">>, <<"²">>, <<"g","d","r","i","v","e">>, <<"w","o","r","k">>, <<"W","o","r","k">>, <<"q">>, <<"S","a","l","i","r">>, <<"?">>}
SourceLines == {<<>>, <<"1">>, <<"2">>, <<"3">>, <<"4">>, <<"H">>, <<"q">>, <<"q","u","i","t">>, <<"s","a","l","i","r">>}
PathLines == {<<>>, <<"/">>, <<"~">>, <<"~","/","D","o","c","u","m","e","n","t","s">>, <<"$","H","O","M","E","/","E","s","c","r","i","t","o","r","i","o">>,
              <<"/","r","o","o","t","/","D","o","c","u","m","e","n","t","s","/",".","g","i","t">>, <<"/","r","o","o","t","/","D","o","c","u","m","e","n","t","s","/","n","o","t","e","s">>, <<"/","n","o","p","e">>, <<"h","e","l","p">>, <<"q">>}
BrowserLines == {<<>>, <<"1">>, <<"2">>, <<"0">>, <<"²">>, <<"U">>, <<" ","b"," ">>, <<"h">>, <<"q">>, <<"q","u","i","t">>, <<"s","a","l","i","r">>, <<"x">>}
DestLines == {<<>>, <<"/","V","/">>, <<"q">>}
BaseLines == {<<>>, <<"/","V","/">>, <<"h">>}

\* ------------------------------------------------------------ state
VARIABLES
    pc,             \* where the run is blocked: a prompt, an external call, or "done"
    fs,             \* the filesystem the run sees
    rclone,         \* require_rclone's result
    remotes,        \* main: remotes
    remote,         \* main: remote
    e,              \* remote_ok_or_fix: <<e.output>> of the CalledProcessError it handles, <<>> if none
    current,        \* folder_browser: current
    source_path,    \* main: source_path
    dest,           \* main: dest
    use_versions,   \* main: use_versions
    versions_base,  \* main: versions_base
    dry_run,        \* main: dry_run
    show_progress,  \* main: show_progress
    now,            \* main: <<the date dt.datetime.now() gave>>, <<>> if the clock was not read
    cmd,            \* main: cmd
    rc,             \* main: <<rc>> of the setup or copy process, <<>> if none has ended
    rc_fix,         \* remote_ok_or_fix: <<rc>> of the reconnect process, <<>> if none
    exit_status,    \* <<status>> once the process has ended, <<>> while it runs
    traceback,      \* the process ended by an exception nothing catches
    line,           \* the last line of input read
    asked,          \* the prompt that read it
    help_shown,     \* show_help was called for that line
    calls,          \* how many times each external command has been run
    lsd_ok,         \* a listing of the remote has succeeded
    lsd_remote,     \* remote_ok_or_fix: the remote last listed, None if none was
    ascended_from,  \* folder_browser: the directory the last command left by "u", None otherwise;
                    \* kept over a numeric choice that directly follows the "u"
    came_back       \* folder_browser: the last command was a numeric choice directly after a "u"

vars == <<pc, fs, rclone, remotes, remote, e, current, source_path, dest, use_versions,
          versions_base, dry_run, show_progress, now, cmd, rc, rc_fix, exit_status, traceback,
          line, asked, help_shown, calls, lsd_ok, lsd_remote, ascended_from, came_back>>

params == <<dest, use_versions, versions_base, dry_run, show_progress, now, cmd>>
health == <<e, rc_fix, lsd_ok, lsd_remote>>
folder == <<current, source_path, ascended_from, came_back>>

Init ==
    /\ pc = "start"
    /\ fs \in FileSystems
    /\ rclone = NoText
    /\ remotes = <<>>
    /\ remote = NoText
    /\ e = <<>>
    /\ current = NoPath
    /\ source_path = NoPath
    /\ dest = NoText
    /\ use_versions = FALSE
    /\ versions_base = NoText
    /\ dry_run = FALSE
    /\ show_progress = FALSE
    /\ now = <<>>
    /\ cmd = <<>>
    /\ rc = <<>>
    /\ rc_fix = <<>>
    /\ exit_status = <<>>
    /\ traceback = FALSE
    /\ line = NoText
    /\ asked = "none"
    /\ help_shown = FALSE
    /\ calls = [config |-> 0, lsd |-> 0, reconnect |-> 0, copy |-> 0]
    /\ lsd_ok = FALSE
    /\ lsd_remote = NoText
    /\ ascended_from = NoPath
    /\ came_back = FALSE

\* control: go on to another blocking point, end by return or SystemExit,
\* or end by an uncaught exception (the interpreter's status 1).
Goto(p) == pc' = p /\ UNCHANGED <<exit_status, traceback>>
Return == pc' = "done" /\ exit_status' = <<0>> /\ traceback' = FALSE
SystemExit(code) == pc' = "done" /\ exit_status' = <<code>> /\ traceback' = FALSE
Uncaught == pc' = "done" /\ exit_status' = <<1>> /\ traceback' = TRUE

\* input(): one line read at the current prompt
Read(raw, help) == line' = raw /\ asked' = pc /\ help_shown' = help
Called(what) == calls' = [calls EXCEPT ![what] = @ + 1]

\* ------------------------------------------------------------ main, up to the remote
RequireRclone ==
    /\ pc = "start"
    /\ \E found \in WhichResults :
        /\ rclone' = found
        /\ IF found = NoText THEN SystemExit(2) ELSE Goto("get_remotes")
    /\ UNCHANGED <<fs, remotes, remote, health, folder, params, rc, line, asked, help_shown, calls>>

GetRemotes ==
    /\ pc = "get_remotes"
    /\ \E out \in ListremotesResults :
        /\ remotes' = get_remotes(out)
        /\ IF get_remotes(out) = <<>> THEN Goto("ask_config") ELSE Goto("ask_default")
    /\ UNCHANGED <<fs, rclone, remote, health, folder, params, rc, line, asked, help_shown, calls>>

AskConfig ==
    /\ pc = "ask_config"
    /\ \E raw \in YesNoLines :
        LET r == ask_yes_no(raw, TRUE)
        IN  /\ Read(raw, r = "help")
            /\ IF r = "no" THEN Return
               ELSE IF r = "yes" THEN Goto("run_config")
               ELSE Goto("ask_config")
    /\ UNCHANGED <<fs, rclone, remotes, remote, health, folder, params, rc, calls>>

RunConfig ==
    /\ pc = "run_config"
    /\ \E code \in 0..MaxRc, out \in ListremotesAfterConfig :
        /\ rc' = <<code>>
        /\ Called("config")
        /\ IF config_failed(code) THEN SystemExit(code) /\ UNCHANGED remotes
           ELSE /\ remotes' = get_remotes(out)
                /\ IF get_remotes(out) = <<>> THEN SystemExit(2) ELSE Goto("ask_default")
    /\ UNCHANGED <<fs, rclone, remote, health, folder, params, line, asked, help_shown>>

AskDefault ==
    /\ pc = "ask_default"
    /\ \E raw \in DefaultLines :
        LET typed == lower(strip(raw, Whitespace))
            ans == IF typed = <<>> THEN <<"s">> ELSE typed
        IN  /\ Read(raw, ans \in HelpTokens)
            /\ IF ans \in HelpTokens \cup QuitShort THEN Return /\ UNCHANGED remote
               ELSE IF ans \in NoTokens THEN Goto("pick_remote") /\ UNCHANGED remote
               ELSE remote' = default_remote(remotes) /\ Goto("check_remote")
    /\ UNCHANGED <<fs, rclone, remotes, health, folder, params, rc, calls>>

\* a slip in pick_remote: the index taken one place too far
pick_remote_off_by_one(choice, rs) ==
    IF lower(choice) \in HelpTokens THEN [kind |-> "help", value |-> <<>>]
    ELSE IF lower(choice) \in QuitPick THEN [kind |-> "return", value |-> <<>>]
    ELSE IF isdigit(choice) /\ int_raises(choice) THEN [kind |-> "raise", value |-> <<>>]
    ELSE IF isdigit(choice) /\ 1 <= int(choice) /\ int(choice) <= Len(rs)
         THEN [kind |-> "return", value |-> rs[(int(choice) % Len(rs)) + 1]]
    ELSE IF ~isdigit(choice) /\ InSeq(choice, rs) THEN [kind |-> "return", value |-> choice]
    ELSE [kind |-> "invalid", value |-> <<>>]

\* pick_remote on one line of input: what the loop does with it ("help" and
\* "invalid" ask again, "return" leaves with the value, "raise" is int()'s
\* ValueError).
pick_remote(choice, rs) ==
    IF lower(choice) \in HelpTokens THEN [kind |-> "help", value |-> <<>>]
    ELSE IF lower(choice) \in QuitPick THEN [kind |-> "return", value |-> <<>>]
    ELSE IF isdigit(choice) /\ int_raises(choice) THEN [kind |-> "raise", value |-> <<>>]
    ELSE IF isdigit(choice) /\ 1 <= int(choice) /\ int(choice) <= Len(rs)
         THEN [kind |-> "return", value |-> rs[int(choice)]]
    ELSE IF ~isdigit(choice) /\ InSeq(choice, rs) THEN [kind |-> "return", value |-> choice]
    ELSE [kind |-> "invalid", value |-> <<>>]

\* main: remote = pick_remote(remotes), and the return on an empty result
PickRemote ==
    /\ pc = "pick_remote"
    /\ \E raw \in PickLines :
        LET r == pick_remote(strip(raw, Whitespace), remotes)
        IN  /\ Read(raw, r.kind = "help")
            /\ IF r.kind = "raise" THEN Uncaught /\ UNCHANGED remote
               ELSE IF r.kind = "return"
                    THEN /\ remote' = r.value
                         /\ IF r.value = <<>> THEN Return ELSE Goto("check_remote")
               ELSE Goto("pick_remote") /\ UNCHANGED remote
    /\ UNCHANGED <<fs, rclone, remotes, health, folder, params, rc, calls>>

\* ------------------------------------------------------------ remote_ok_or_fix
CheckRemote ==
    /\ pc = "check_remote"
    /\ \E out \in {LsdOk} \cup LsdOutputs :
        /\ Called("lsd")
        /\ lsd_remote' = remote
        /\ UNCHANGED rc_fix
        /\ IF out = LsdOk THEN lsd_ok' = TRUE /\ UNCHANGED e /\ Goto("choose_source")
           ELSE /\ e' = <<out>>
                /\ UNCHANGED lsd_ok
                /\ IF needs_reconnect(out) THEN Goto("ask_reconnect") ELSE SystemExit(2)
    /\ UNCHANGED <<fs, rclone, remotes, remote, folder, params, rc, line, asked, help_shown>>

AskReconnect ==
    /\ pc = "ask_reconnect"
    /\ \E raw \in YesNoLines :
        LET r == ask_yes_no(raw, TRUE)
        IN  /\ Read(raw, r = "help")
            /\ IF r = "no" THEN SystemExit(2)
               ELSE IF r = "yes" THEN Goto("reconnect")
               ELSE Goto("ask_reconnect")
    /\ UNCHANGED <<fs, rclone, remotes, remote, health, folder, params, rc, calls>>

Reconnect ==
    /\ pc = "reconnect"
    /\ \E code \in 0..MaxRc, out \in {LsdOk} \cup LsdOutputs :
        IF reconnect_failed(code)
        THEN /\ calls' = [calls EXCEPT !.reconnect = @ + 1]
             /\ rc_fix' = <<code>>
             /\ UNCHANGED <<e, lsd_ok, lsd_remote>>
             /\ SystemExit(code)
        ELSE /\ calls' = [calls EXCEPT !.reconnect = @ + 1, !.lsd = @ + 1]
             /\ lsd_remote' = remote
             /\ IF out = LsdOk
                THEN lsd_ok' = TRUE /\ e' = <<>> /\ rc_fix' = <<>> /\ Goto("choose_source")
                ELSE UNCHANGED <<e, lsd_ok>> /\ rc_fix' = <<code>> /\ Uncaught
    /\ UNCHANGED <<fs, rclone, remotes, remote, rc, folder, params, line, asked, help_shown>>

\* ------------------------------------------------------------ choose_source_folder
first_existing(f, candidates) ==
    IF exists(f, candidates[1]) THEN candidates[1]
    ELSE IF exists(f, candidates[2]) THEN candidates[2]
    ELSE NoPath
docs(f) == first_existing(f, <<joinpath(home, <<"D","o","c","u","m","e","n","t","o","s">>), joinpath(home, <<"D","o","c","u","m","e","n","t","s">>)>>)
desk(f) == first_existing(f, <<joinpath(home, <<"E","s","c","r","i","t","o","r","i","o">>), joinpath(home, <<"D","e","s","k","t","o","p">>)>>)

ChooseSource ==
    /\ pc = "choose_source"
    /\ \E raw \in SourceLines :
        LET typed == lower(strip(raw, Whitespace))
            default == IF docs(fs) # NoPath THEN <<"1">> ELSE <<"3">>
            choice == IF typed = <<>> THEN default ELSE typed
        IN  /\ Read(raw, choice \in HelpTokens)
            /\ IF choice \in HelpTokens THEN Goto("choose_source") /\ UNCHANGED current
               ELSE IF choice \in QuitShort THEN Return /\ UNCHANGED current
               ELSE IF choice = <<"1">> /\ docs(fs) # NoPath THEN current' = docs(fs) /\ Goto("browser")
               ELSE IF choice = <<"2">> /\ desk(fs) # NoPath THEN current' = desk(fs) /\ Goto("browser")
               ELSE IF choice = <<"3">> THEN Goto("manual_path") /\ UNCHANGED current
               ELSE Goto("choose_source") /\ UNCHANGED current
    /\ UNCHANGED <<fs, rclone, remotes, remote, health, source_path, ascended_from, came_back,
                   params, rc, calls>>

ManualPath ==
    /\ pc = "manual_path"
    /\ \E raw \in PathLines :
        LET manual == strip(raw, Whitespace)
            p == Path(expandvars(expanduser(manual)))
        IN  /\ Read(raw, lower(manual) \in HelpTokens)
            /\ IF lower(manual) \in HelpTokens THEN Goto("choose_source") /\ UNCHANGED current
               ELSE IF exists(fs, p) /\ is_dir(fs, p) THEN current' = p /\ Goto("browser")
               ELSE Goto("choose_source") /\ UNCHANGED current
    /\ UNCHANGED <<fs, rclone, remotes, remote, health, source_path, ascended_from, came_back,
                   params, rc, calls>>

\* ------------------------------------------------------------ folder_browser
Browser ==
    /\ pc = "browser"
    /\ \E raw \in BrowserLines, subs \in list_subfolders(fs, current) :
        LET choice == lower(strip(raw, Whitespace))
            command == choice \in HelpTokens \cup QuitShort \cup {<<"u">>, <<"b">>}
            descends == /\ ~command /\ isdigit(choice) /\ ~int_raises(choice)
                        /\ 1 <= int(choice) /\ int(choice) <= Len(subs)
            back == descends /\ ascended_from # NoPath /\ ~came_back
        IN  /\ Read(raw, choice \in HelpTokens)
            /\ IF choice \in HelpTokens THEN Goto("browser") /\ UNCHANGED <<current, source_path>>
               ELSE IF choice \in QuitShort THEN Return /\ UNCHANGED <<current, source_path>>
               ELSE IF choice = <<"u">>
                    THEN /\ current' = IF parent(current) # current THEN parent(current) ELSE current
                         /\ UNCHANGED source_path
                         /\ Goto("browser")
               ELSE IF choice = <<"b">> THEN source_path' = current /\ UNCHANGED current /\ Goto("ask_dest")
               ELSE IF isdigit(choice) /\ int_raises(choice)
                    THEN Uncaught /\ UNCHANGED <<current, source_path>>
               ELSE IF descends
                    THEN current' = subs[int(choice)] /\ UNCHANGED source_path /\ Goto("browser")
               ELSE Goto("browser") /\ UNCHANGED <<current, source_path>>
            /\ ascended_from' = IF choice = <<"u">> THEN current
                                ELSE IF back THEN ascended_from ELSE NoPath
            /\ came_back' = back
    /\ UNCHANGED <<fs, rclone, remotes, remote, health, params, rc, calls>>

\* ------------------------------------------------------------ main, the parameters
AskDest ==
    /\ pc = "ask_dest"
    /\ \E raw \in DestLines :
        LET typed == strip(raw, Whitespace)
        IN  /\ Read(raw, FALSE)
            /\ dest' = strip(IF typed = <<>> THEN DefaultDest ELSE typed, {"/"})
            /\ Goto("ask_versions")
    /\ UNCHANGED <<fs, rclone, remotes, remote, health, folder, use_versions, versions_base,
                   dry_run, show_progress, now, cmd, rc, calls>>

AskVersions ==
    /\ pc = "ask_versions"
    /\ \E raw \in ParamLines :
        LET r == ask_yes_no(raw, TRUE)
        IN  /\ Read(raw, r = "help")
            /\ IF r = "yes" THEN use_versions' = TRUE /\ versions_base' = DefaultVersionsBase /\ Goto("ask_versions_base")
               ELSE IF r = "no" THEN use_versions' = FALSE /\ versions_base' = DefaultVersionsBase /\ Goto("ask_dry_run")
               ELSE UNCHANGED <<use_versions, versions_base>> /\ Goto("ask_versions")
    /\ UNCHANGED <<fs, rclone, remotes, remote, health, folder, dest, dry_run, show_progress, now, cmd, rc, calls>>

\* the versions folder: a help request shows the help and asks once more,
\* and the second answer is taken as it is
AskVersionsBase ==
    /\ pc = "ask_versions_base"
    /\ \E raw \in BaseLines :
        LET custom == strip(raw, Whitespace)
        IN  /\ Read(raw, lower(custom) \in HelpTokens)
            /\ IF lower(custom) \in HelpTokens THEN UNCHANGED versions_base /\ Goto("ask_versions_base_again")
               ELSE /\ versions_base' = strip(IF custom = <<>> THEN versions_base ELSE custom, {"/"})
                    /\ Goto("ask_dry_run")
    /\ UNCHANGED <<fs, rclone, remotes, remote, health, folder, dest, use_versions, dry_run,
                   show_progress, now, cmd, rc, calls>>

AskVersionsBaseAgain ==
    /\ pc = "ask_versions_base_again"
    /\ \E raw \in BaseLines :
        LET custom == strip(raw, Whitespace)
        IN  /\ Read(raw, FALSE)
            /\ versions_base' = strip(IF custom = <<>> THEN versions_base ELSE custom, {"/"})
            /\ Goto("ask_dry_run")
    /\ UNCHANGED <<fs, rclone, remotes, remote, health, folder, dest, use_versions, dry_run,
                   show_progress, now, cmd, rc, calls>>

AskDryRun ==
    /\ pc = "ask_dry_run"
    /\ \E raw \in ParamLines :
        LET r == ask_yes_no(raw, TRUE)
        IN  /\ Read(raw, r = "help")
            /\ IF r \in {"yes", "no"} THEN dry_run' = (r = "yes") /\ Goto("ask_progress")
               ELSE UNCHANGED dry_run /\ Goto("ask_dry_run")
    /\ UNCHANGED <<fs, rclone, remotes, remote, health, folder, dest, use_versions, versions_base,
                   show_progress, now, cmd, rc, calls>>

\* the last parameter; the command is built as soon as it is answered
AskProgress ==
    /\ pc = "ask_progress"
    /\ \E raw \in ParamLines, clock \in Dates :
        LET r == ask_yes_no(raw, TRUE)
        IN  /\ Read(raw, r = "help")
            /\ IF r \in {"yes", "no"}
               THEN /\ show_progress' = (r = "yes")
                    /\ now' = IF use_versions THEN <<clock>> ELSE now
                    /\ cmd' = build_cmd(rclone, source_path, remote, dest, use_versions,
                                        versions_base, strftime(clock), dry_run, r = "yes")
                    /\ Goto("confirm")
               ELSE UNCHANGED <<show_progress, now, cmd>> /\ Goto("ask_progress")
    /\ UNCHANGED <<fs, rclone, remotes, remote, health, folder, dest, use_versions, versions_base,
                   dry_run, rc, calls>>

\* ------------------------------------------------------------ main, confirmation and copy
Confirm ==
    /\ pc = "confirm"
    /\ \E raw \in ConfirmLines :
        LET typed == lower(strip(raw, Whitespace))
            go == IF typed = <<>> THEN <<"s">> ELSE typed
        IN  /\ Read(raw, go \in HelpTokens)
            /\ IF go \in HelpTokens THEN Return
               ELSE IF go \in NoTokens \cup QuitShort THEN Return
               ELSE Goto("execute")
    /\ UNCHANGED <<fs, rclone, remotes, remote, health, folder, params, rc, calls>>

Execute ==
    /\ pc = "execute"
    /\ \E code \in 0..MaxRc :
        /\ rc' = <<code>>
        /\ Called("copy")
        /\ IF copy_failed(code) THEN SystemExit(code) ELSE Return
    /\ UNCHANGED <<fs, rclone, remotes, remote, health, folder, params, line, asked, help_shown>>

Next ==
    \/ RequireRclone
    \/ GetRemotes
    \/ AskConfig
    \/ RunConfig
    \/ AskDefault
    \/ PickRemote
    \/ CheckRemote
    \/ AskReconnect
    \/ Reconnect
    \/ ChooseSource
    \/ ManualPath
    \/ Browser
    \/ AskDest
    \/ AskVersions
    \/ AskVersionsBase
    \/ AskVersionsBaseAgain
    \/ AskDryRun
    \/ AskProgress
    \/ Confirm
    \/ Execute

Spec == Init /\ [][Next]_vars

\* ------------------------------------------------------------ properties
\* What the user typed last, as the prompts compare it.
Typed == lower(strip(line, Whitespace))
\* An answer that accepts a yes/no question whose default is yes.
Accepted == Typed = <<>> \/ Typed \in YesTokens
Ended(code) == pc = "done" /\ exit_status = <<code>> /\ ~traceback
CopyReached == pc = "execute" \/ calls.copy > 0

\* C1 (as claimed): the copy command is reached only after a listing of the
\* remote has succeeded, a source directory has been selected and the user
\* has accepted the final confirmation.
C1_CopyOnlyAfterAcceptance ==
    CopyReached => lsd_ok /\ source_path # NoPath /\ asked = "confirm" /\ Accepted

\* Supplement to C1: the part of it that the program does guarantee: the copy
\* is reached only with a successful listing, a selected source, and a final
\* answer that is none of the help, no and short quit tokens.
C1_CopyOnlyAfterCheckAndSource ==
    CopyReached => /\ lsd_ok
                   /\ source_path # NoPath
                   /\ asked = "confirm"
                   /\ Typed \notin HelpTokens \cup NoTokens \cup QuitShort

\* C2: every command built is [tool, "copy", source, "<remote>:<dest>",
\* "--fast-list"] followed only by the optional flags (the backup-dir flag
\* with its target, the dry-run flag, the progress flag).
OptionalFlags == {<<"-","-","b","a","c","k","u","p","-","d","i","r">>, <<"-","-","d","r","y","-","r","u","n">>, <<"-","-","p","r","o","g","r","e","s","s">>}
C2_CopyModeCommand ==
    cmd # <<>> =>
        /\ Len(cmd) >= 5
        /\ cmd[1] = rclone /\ rclone = RclonePath
        /\ cmd[2] = <<"c","o","p","y">>
        /\ cmd[3] = path_str(source_path)
        /\ cmd[4] = remote \o <<":">> \o dest
        /\ cmd[5] = <<"-","-","f","a","s","t","-","l","i","s","t">>
        /\ \A i \in 6..Len(cmd) : cmd[i] \in OptionalFlags \/ cmd[i - 1] = <<"-","-","b","a","c","k","u","p","-","d","i","r">>
        /\ \A i \in 1..Len(cmd) : cmd[i] \notin {<<"s","y","n","c">>, <<"m","o","v","e">>, <<"d","e","l","e","t","e">>, <<"p","u","r","g","e">>}
C2_Witness == pc = "execute" /\ dry_run /\ cmd[2] = <<"c","o","p","y">> /\ InSeq(<<"-","-","d","r","y","-","r","u","n">>, cmd)

\* C3: the command holds the dry-run flag exactly when a dry run was chosen
\* and the progress flag exactly when progress was asked for.
C3_FlagsFollowAnswers ==
    cmd # <<>> =>
        /\ InSeq(<<"-","-","d","r","y","-","r","u","n">>, cmd) <=> dry_run
        /\ InSeq(<<"-","-","p","r","o","g","r","e","s","s">>, cmd) <=> show_progress
C3_Witness == cmd # <<>> /\ ~dry_run /\ show_progress /\ ~InSeq(<<"-","-","d","r","y","-","r","u","n">>, cmd)

\* C4: the command holds the backup-dir flag exactly when versioning is on,
\* and then its target is "<remote>:<versions-base>/<YYYY-MM-DD of the day>";
\* with base "V" on 2024-01-02 it is "<remote>:V/2024-01-02".
Digit(n) == DigitChars[(n % 10) + 1]
YYYY_MM_DD(d) ==
    <<Digit(d.year \div 1000), Digit(d.year \div 100), Digit(d.year \div 10), Digit(d.year), "-",
      Digit(d.month \div 10), Digit(d.month), "-", Digit(d.day \div 10), Digit(d.day)>>
C4_BackupDirTarget ==
    cmd # <<>> =>
        /\ InSeq(<<"-","-","b","a","c","k","u","p","-","d","i","r">>, cmd) <=> use_versions
        /\ use_versions =>
            /\ now # <<>>
            /\ cmd[6] = <<"-","-","b","a","c","k","u","p","-","d","i","r">>
            /\ cmd[7] = remote \o <<":">> \o versions_base \o <<"/">> \o YYYY_MM_DD(now[1])
            /\ (versions_base = <<"V">> /\ now[1] = [year |-> 2024, month |-> 1, day |-> 2])
                    => cmd[7] = remote \o <<":","V","/","2","0","2","4","-","0","1","-","0","2">>
C4_Witness ==
    /\ cmd # <<>> /\ use_versions /\ versions_base = <<"V">>
    /\ now = <<[year |-> 2024, month |-> 1, day |-> 2]>>
    /\ cmd[7] = remote \o <<":","V","/","2","0","2","4","-","0","1","-","0","2">>

\* C5: with no remote configured, declining the setup wizard ends the run
\* with status 0: no setup, no listing, no reconnect, no copy has been run,
\* and no command has been built.
NoCalls == [config |-> 0, lsd |-> 0, reconnect |-> 0, copy |-> 0]
C5_DeclinedSetupEndsCleanly ==
    (asked = "ask_config" /\ Typed \in NoTokens) =>
        Ended(0) /\ remotes = <<>> /\ cmd = <<>> /\ calls = NoCalls
C5_Witness == asked = "ask_config" /\ Typed \in NoTokens /\ Ended(0)

\* C6 (as claimed): a quit token typed at any interactive prompt ends the
\* run with status 0 and the copy command is never run.
QuitTokens == {<<"q">>, <<"q","u","i","t">>, <<"s","a","l","i","r">>}
InteractivePrompts ==
    {"ask_default", "pick_remote", "ask_reconnect", "choose_source", "browser", "ask_dest",
     "ask_versions", "ask_versions_base", "ask_versions_base_again", "ask_dry_run",
     "ask_progress", "confirm"}
C6_QuitTokenCancels ==
    (asked \in InteractivePrompts /\ Typed \in QuitTokens) => Ended(0) /\ calls.copy = 0

\* C7: a failed listing is NeedsReauth (the run asks for consent to
\* reconnect) when its output holds one of the markers in any letter case,
\* and Fatal otherwise; Fatal ends the run with status 2 and no reconnect.
AuthMarkers == {<<"e","m","p","t","y"," ","t","o","k","e","n">>, <<"r","e","c","o","n","n","e","c","t">>, <<"f","a","i","l","e","d"," ","t","o"," ","c","r","e","a","t","e"," ","o","a","u","t","h"," ","c","l","i","e","n","t">>, <<"i","n","v","a","l","i","d","_","g","r","a","n","t">>}
HoldsMarker(text) ==
    \E m \in AuthMarkers : \E i \in 1..Len(text) :
        i + Len(m) - 1 <= Len(text) /\ lower(SubSeq(text, i, i + Len(m) - 1)) = m
C7_Classification ==
    [][(pc = "check_remote" /\ e' # <<>>) =>
        IF e'[1] # NoText /\ HoldsMarker(e'[1])
        THEN pc' = "ask_reconnect" /\ exit_status' = <<>> /\ calls'.reconnect = 0
        ELSE pc' = "done" /\ exit_status' = <<2>> /\ ~traceback' /\ calls'.reconnect = 0]_vars
C7_Witness == pc = "ask_reconnect" /\ e = <<<<"I","N","V","A","L","I","D","_","G","R","A","N","T">>>>

\* C8: in the NeedsReauth case, declining ends the run with a non-zero
\* status and no reconnect; a reconnect that exits rc # 0 ends the run with
\* rc and no second listing; a reconnect that exits 0 is followed by exactly
\* one more listing, and the run goes on to the source when it succeeds.
C8_Declined ==
    (asked = "ask_reconnect" /\ Typed \in NoTokens) =>
        pc = "done" /\ exit_status # <<0>> /\ exit_status # <<>> /\ calls.reconnect = 0
C8_Counts == calls.reconnect <= 1 /\ calls.lsd <= 2 /\ (calls.lsd = 2 => calls.reconnect = 1)
C8_ReconnectStep ==
    pc = "reconnect" =>
        /\ calls'.reconnect = 1
        /\ IF rc_fix' # <<>> /\ rc_fix'[1] # 0
           THEN pc' = "done" /\ exit_status' = rc_fix' /\ calls'.lsd = 1 /\ lsd_ok' = lsd_ok
           ELSE calls'.lsd = 2 /\ (lsd_ok' => pc' = "choose_source" /\ exit_status' = <<>>)
C8_Reauthorization == [](C8_Declined /\ C8_Counts) /\ [][C8_ReconnectStep]_vars
C8_Witness == pc = "choose_source" /\ calls.reconnect = 1 /\ calls.lsd = 2 /\ lsd_ok

\* C9 (as claimed): when the listing after a successful reconnect fails
\* again, the run ends as a Fatal failure does: status 2, no traceback.
C9_SecondFailureIsFatal ==
    (calls.reconnect = 1 /\ calls.lsd = 2 /\ ~lsd_ok) => Ended(2)
\* Supplement to C9: the part that holds: after that second failure the run
\* has ended and neither the source selection nor the copy was reached.
C9_SecondFailureEndsRun ==
    (calls.reconnect = 1 /\ calls.lsd = 2 /\ ~lsd_ok) =>
        pc = "done" /\ current = NoPath /\ source_path = NoPath /\ calls.copy = 0

\* C10: the copy is run at most once, and once it has been run the run has
\* ended with the copy's exit code as its status (0 on success).
C10_StatusIsCopyCode ==
    /\ calls.copy <= 1
    /\ calls.copy = 1 => pc = "done" /\ ~traceback /\ rc # <<>> /\ exit_status = rc
C10_Witness == calls.copy = 1 /\ exit_status = rc /\ rc # <<0>> /\ rc # <<>>

\* C11: the default offered is "gdrive" when it is configured and the first
\* remote otherwise; when the user keeps the default, that remote is the one
\* listed by the health check and the one the copy destination names.  The
\* selected remote and the list of remotes never change afterwards.
OfferedDefault(rs) == IF \E i \in 1..Len(rs) : rs[i] = <<"g","d","r","i","v","e">> THEN <<"g","d","r","i","v","e">> ELSE rs[1]
C11_KeptDefault ==
    (asked = "ask_default" /\ Accepted) =>
        /\ remotes # <<>>
        /\ remote = OfferedDefault(remotes)
        /\ pc # "pick_remote"
        /\ calls.lsd > 0 => lsd_remote = OfferedDefault(remotes)
C11_RemoteUsed ==
    /\ calls.lsd > 0 => lsd_remote = remote /\ remote # NoText
    /\ cmd # <<>> => startswith(cmd[4], remote \o <<":">>)
C11_DefaultRemote ==
    /\ [](C11_KeptDefault /\ C11_RemoteUsed)
    /\ [][remote # NoText => remote' = remote /\ remotes' = remotes]_vars
C11_Witness ==
    /\ asked = "ask_default" /\ Typed = <<>>
    /\ remotes = <<<<"w","o","r","k">>, <<"g","d","r","i","v","e">>>> /\ remote = <<"g","d","r","i","v","e">>
    /\ calls.lsd = 1 /\ lsd_remote = <<"g","d","r","i","v","e">>

\* C12 (as claimed): in the pick-list, the index of a remote selects it and
\* the exact name of a remote selects it, whatever the name.
PickChoice == strip(line, Whitespace)
IsDecimal(s) == s # <<>> /\ \A i \in 1..Len(s) : \E j \in 1..10 : DigitChars[j] = s[i]
PickedByIndex ==
    (IsDecimal(PickChoice) /\ 1 <= int(PickChoice) /\ int(PickChoice) <= Len(remotes))
        => remote = remotes[int(PickChoice)] /\ pc # "pick_remote" /\ ~traceback
C12_IndexOrNameSelects ==
    asked = "pick_remote" =>
        /\ PickedByIndex
        /\ (\E i \in 1..Len(remotes) : remotes[i] = PickChoice) => remote = PickChoice

\* C12 (amended): the index of a remote selects it; the exact name of a
\* remote selects it unless the name is made only of digits (it is read as
\* an index) or is, lower-cased, a help or quit token (it is read as that
\* command).
HelpRequests == {<<"h">>, <<"h","e","l","p">>, <<"?">>}
C12_IndexOrPlainNameSelects ==
    asked = "pick_remote" =>
        /\ PickedByIndex
        /\ ( /\ \E i \in 1..Len(remotes) : remotes[i] = PickChoice
             /\ ~isdigit(PickChoice)
             /\ lower(PickChoice) \notin HelpRequests \cup QuitTokens )
            => remote = PickChoice /\ pc # "pick_remote" /\ ~traceback
C12_Witness ==
    /\ asked = "pick_remote" /\ PickChoice = <<"w","o","r","k">> /\ remote = <<"w","o","r","k">>
    /\ remotes = <<<<"w","o","r","k">>, <<"g","d","r","i","v","e">>>> /\ pc = "check_remote"

\* C13: after the setup wizard has been accepted with no remote configured,
\* a non-zero wizard exit code rc ends the run with exactly rc, a zero exit
\* code with a still empty remote list ends the run with status 2, and
\* neither runs a health check or a copy; the run goes on to the selection
\* of the remote only when the wizard exits 0 and a remote is then listed.
C13_WizardStep ==
    pc = "run_config" =>
        /\ calls.config = 0 /\ remotes = <<>> /\ asked = "ask_config" /\ Accepted
        /\ calls'.config = 1 /\ Len(rc') = 1
        /\ rc'[1] # 0 => pc' = "done" /\ exit_status' = rc' /\ ~traceback'
        /\ (rc'[1] = 0 /\ remotes' = <<>>) =>
                pc' = "done" /\ exit_status' = <<2>> /\ ~traceback'
        /\ (rc'[1] = 0 /\ remotes' # <<>>) => pc' = "ask_default" /\ exit_status' = <<>>
        /\ calls'.lsd = 0 /\ calls'.copy = 0
C13_WizardFailed ==
    (calls.config > 0 /\ remotes = <<>>) =>
        /\ pc = "done" /\ calls.lsd = 0 /\ calls.copy = 0 /\ cmd = <<>> /\ ~traceback
        /\ exit_status = IF rc[1] # 0 THEN rc ELSE <<2>>
C13_WizardOutcome ==
    /\ [](C13_WizardFailed /\ (pc = "ask_default" => remotes # <<>>))
    /\ [][C13_WizardStep]_vars
C13_Witness ==
    /\ calls.config = 1 /\ rc = <<1>> /\ Ended(1) /\ remotes = <<>>
    /\ calls.lsd = 0 /\ calls.copy = 0

\* C14 (as claimed): a line that is no recognised choice of a menu prompt
\* (an unknown word or an index out of range) leaves the run at the same
\* prompt, with the selected remote, the current directory and the
\* parameters unchanged, and never ends it with an uncaught exception.
MenuPrompts == {"ask_default", "pick_remote", "browser", "confirm"}
ListedCount == Len(CHOOSE subs \in list_subfolders(fs, current) : TRUE)
Recognised(p, raw) ==
    LET c == strip(raw, Whitespace)
        t == lower(c)
    IN  IF p \in {"ask_default", "confirm"}
        THEN t = <<>> \/ t \in YesTokens \cup NoTokens \cup HelpRequests \cup QuitTokens
        ELSE IF p = "pick_remote"
        THEN \/ t \in HelpRequests \cup QuitTokens
             \/ IsDecimal(c) /\ 1 <= int(c) /\ int(c) <= Len(remotes)
             \/ \E i \in 1..Len(remotes) : remotes[i] = c
        ELSE \/ t \in HelpRequests \cup QuitTokens \cup {<<"u">>, <<"b">>}
             \/ IsDecimal(t) /\ 1 <= int(t) /\ int(t) <= ListedCount
C14_InvalidInputStep ==
    (pc \in MenuPrompts /\ asked' = pc /\ ~Recognised(pc, line')) =>
        /\ pc' = pc /\ ~traceback' /\ exit_status' = <<>>
        /\ remote' = remote /\ current' = current /\ params' = params
C14_InvalidInputReprompts == [][C14_InvalidInputStep]_vars

\* C15 (as claimed): in the navigator, "ascend" at the filesystem root
\* leaves the current directory unchanged and stays in the navigator; at
\* any other directory it sets the current directory to its parent.
Ascends == pc = "browser" /\ asked' = "browser" /\ lower(strip(line', Whitespace)) = <<"u">>
Location(p) == resolve(fs, p)
C15_AscendStep ==
    Ascends =>
        /\ pc' = "browser" /\ ~traceback' /\ source_path' = source_path
        /\ IF Location(current) = D_root
           THEN current' = current
           ELSE Location(current') = SubSeq(Location(current), 1, Len(Location(current)) - 1)
C15_AscendToParent == [][C15_AscendStep]_vars

\* C16: in the navigator, with the filesystem unchanged, an ascend directly
\* followed by a descend into the subfolder that has the name of the
\* directory just left gives back that directory; and after an ascend from
\* a visible directory that subfolder is in the listing, so the way back is
\* offered.
C16_BackStep ==
    (pc = "browser" /\ ascended_from # NoPath /\ ~came_back /\ came_back') =>
        /\ ascended_from' = ascended_from /\ fs' = fs
        /\ name(current') = name(ascended_from) => current' = ascended_from
C16_WayBackListed ==
    ( /\ Ascends /\ parent(current) # current
      /\ is_dir(fs, current) /\ ~startswith(name(current), <<".">>) ) =>
        /\ ascended_from' = current
        /\ \A subs \in list_subfolders(fs', current') : \E k \in 1..Len(subs) : subs[k] = current
C16_CameBack == (came_back /\ name(current) = name(ascended_from)) => current = ascended_from
C16_RoundTrip == []C16_CameBack /\ [][C16_BackStep /\ C16_WayBackListed]_vars
C16_Witness ==
    /\ came_back /\ pc = "browser" /\ current = ascended_from
    /\ Location(current) = D_home \o <<<<"D","o","c","u","m","e","n","t","s">>, <<"a","l","p","h","a">>>>

\* C17: in the navigator, a numeric choice k between 1 and the number of
\* listed subfolders makes the k-th of the visible subdirectories of the
\* current directory, taken in case-insensitive order of their names, the
\* current directory, and the navigator goes on; no listing holds a hidden
\* name, so no numeric choice enters one.
VisibleDirsBelow(p) ==
    {d \in fs.dirs : /\ Len(d) = Len(Location(p)) + 1
                     /\ SubSeq(d, 1, Len(Location(p))) = Location(p)
                     /\ Location(p) \in fs.dirs
                     /\ d[Len(d)][1] # "."}
Key(d) == lower(d[Len(d)])
Before(d, S) == Cardinality({x \in S : str_lt(Key(x), Key(d))})
NotAfter(d, S) == Cardinality({x \in S : ~str_lt(Key(d), Key(x))})
NumericChoice(k) ==
    /\ pc = "browser" /\ asked' = "browser"
    /\ IsDecimal(strip(line', Whitespace)) /\ int(strip(line', Whitespace)) = k
C17_DescendStep ==
    \A k \in 1..Cardinality(VisibleDirsBelow(current)) :
        NumericChoice(k) =>
            /\ pc' = "browser" /\ ~traceback' /\ source_path' = source_path /\ fs' = fs
            /\ Location(current') \in VisibleDirsBelow(current)
            /\ Before(Location(current'), VisibleDirsBelow(current)) <= k - 1
            /\ k <= NotAfter(Location(current'), VisibleDirsBelow(current))
C17_Listing ==
    pc = "browser" =>
        \A subs \in list_subfolders(fs, current) :
            /\ Len(subs) = Cardinality(VisibleDirsBelow(current))
            /\ \A k \in 1..Len(subs) : Location(subs[k]) \in VisibleDirsBelow(current)
C17_NumericChoice == []C17_Listing /\ [][C17_DescendStep]_vars
C17_Witness ==
    /\ asked = "browser" /\ Typed = <<"1">> /\ pc = "browser" /\ ~came_back
    /\ Location(current) = D_home \o <<<<"D","o","c","u","m","e","n","t","s">>, <<"a","l","p","h","a">>>>

\* C18 (as claimed): in the navigator, the help command, an unrecognised
\* line and a number outside the range of the listing (0 included) leave
\* the current directory unchanged and keep the navigator going; the
\* navigator is left only by "b", with the current directory as the
\* selected source, or by a quit command, with nothing selected.
NavigatorLine == lower(strip(line', Whitespace))
C18_NavigatorStep ==
    (pc = "browser" /\ asked' = "browser") =>
        /\ (NavigatorLine \in HelpRequests \/ ~Recognised("browser", line')) =>
                pc' = "browser" /\ current' = current /\ source_path' = source_path
        /\ pc' # "browser" =>
                \/ NavigatorLine = <<"b">> /\ pc' = "ask_dest" /\ source_path' = current
                \/ /\ NavigatorLine \in QuitTokens /\ source_path' = NoPath
                   /\ pc' = "done" /\ exit_status' = <<0>> /\ ~traceback'
C18_NavigatorStays == [][C18_NavigatorStep]_vars

\* C19 (as claimed): whichever way the starting location was chosen, the
\* navigator's current node is always a directory, and so is the source
\* that "begin backup" returns and that the copy command names.
C19_CurrentIsDirectory ==
    /\ pc = "browser" => is_dir(fs, current)
    /\ source_path # NoPath => is_dir(fs, source_path)
    /\ cmd # <<>> => cmd[3] = path_str(source_path) /\ is_dir(fs, source_path)

\* C20: a help request ("h", "help" or "?") at the default-remote prompt or
\* at the final confirmation prompt of main shows the help and ends the run
\* with status 0 instead of asking again; after it at the first prompt no
\* health check and no copy has been run, after it at the final prompt no
\* copy has been run.
C20_HelpEndsRun ==
    /\ (asked = "ask_default" /\ Typed \in HelpRequests) =>
            /\ Ended(0) /\ help_shown /\ remote = NoText
            /\ calls.lsd = 0 /\ calls.copy = 0 /\ cmd = <<>>
    /\ (asked = "confirm" /\ Typed \in HelpRequests) =>
            Ended(0) /\ help_shown /\ calls.copy = 0 /\ cmd # <<>>
C20_Witness ==
    /\ asked = "confirm" /\ Typed = <<"?">> /\ Ended(0) /\ help_shown
    /\ calls.lsd > 0 /\ calls.copy = 0
====
